---- MODULE Spec2Model ----
(***************************************************************************)
(* GeoExt.data.LayerStore (src/src/data/LayerStore.js): a record store     *)
(* kept in step with the layer collection of an ol.Map.                    *)
(*                                                                         *)
(* The store, its records, the ol.Collection of a map and the layers are   *)
(* the state.  Everything runs synchronously: one action is one call made  *)
(* from outside (on the store, on a collection, on a layer) together with  *)
(* the whole cascade of handlers it triggers.                              *)
(***************************************************************************)
EXTENDS Integers, Sequences, FiniteSets, TLC

\* ---- bounds ----
NumLayers == 2    \* layers 1..NumLayers
MaxTitle == 1     \* titles 0..MaxTitle; 0 is the empty (falsy) title
MaxLen == 3       \* outside calls keep a layer collection within this length
MaxData == 4      \* outside calls keep the store within this many records
MaxLoad == 2      \* records handed over by one outside add or load
MaxCalls == 2     \* outside calls in one run

Layers == 1..NumLayers
Maps == {1, 2}    \* two ol.Map instances
Titles == 0..MaxTitle
NoMap == 0        \* me.map === null
NoMod == -1       \* record.modified has no title key

\* what me.proxy.reader does with the layers it is given in one outside call:
\* it reads them, it reports failure without records, it reports failure with
\* the records it read all the same, or it throws
Readers == {"ok", "fail", "failRecords", "throw"}

VARIABLES
    map,         \* me.map: the stored map, or NoMap
    layers,      \* layers[m]: the array of map m's layer collection
    title,       \* title[l]: layer l's title property
    lis,         \* layers carrying the propertychange listener onChangeLayer
    colLis,      \* maps whose collection carries onAddLayer/onRemoveLayer
    storeLis,    \* the store carries onLoad/onClear/onAdd/onRemove/onStoreUpdate/onReplace
    data,        \* the store's records, in store order
    adding,      \* me._adding
    removing,    \* me._removing
    addRecords,  \* me._addRecords
    log,         \* what the last outside call did, in order
    err,         \* the last outside call ended in a thrown TypeError
    op,          \* the last outside call
    calls        \* outside calls made so far

vars == <<map, layers, title, lis, colLis, storeLis, data, adding, removing,
          addRecords, log, err, op, calls>>

\* ---- sequences as JavaScript arrays (0-based indexes) ----
Min(a, b) == IF a < b THEN a ELSE b
Max(a, b) == IF a > b THEN a ELSE b

Elems(q) == {q[k] : k \in 1..Len(q)}

\* Array.prototype.splice(index, 0, x...): a negative index counts from the end
SpliceIdx(n, index) == IF index < 0 THEN Max(n + index, 0) ELSE Min(index, n)

InsertAll(q, index, xs) ==
    LET i == SpliceIdx(Len(q), index)
    IN  SubSeq(q, 1, i) \o xs \o SubSeq(q, i + 1, Len(q))

RemoveAt(q, k) == SubSeq(q, 1, k - 1) \o SubSeq(q, k + 1, Len(q))

\* Array.prototype.indexOf: first position, 0-based, or -1
IndexOf(q, x) ==
    IF x \in Elems(q)
    THEN (CHOOSE k \in 1..Len(q) : q[k] = x /\ \A j \in 1..(k - 1) : q[j] # x) - 1
    ELSE -1

NoDup(q) == \A i, j \in 1..Len(q) : q[i] = q[j] => i = j

\* ---- the state as one value, so that a handler is a function on it ----
St == [map |-> map, layers |-> layers, title |-> title, lis |-> lis,
       colLis |-> colLis, storeLis |-> storeLis, data |-> data,
       adding |-> adding, removing |-> removing, addRecords |-> addRecords,
       log |-> log, err |-> err, rd |-> "ok"]

Logged(s, e) == [s EXCEPT !.log = Append(@, e)]

\* rec.getOlLayer()
getOlLayer(rec) == rec.layer

\* ---- store lookups ----
\* Ext.data.Store.findBy(rec => rec.getOlLayer() === layer): 0-based, or -1
findByLayer(s, layer) ==
    IF \E k \in 1..Len(s.data) : getOlLayer(s.data[k]) = layer
    THEN (CHOOSE k \in 1..Len(s.data) :
              /\ getOlLayer(s.data[k]) = layer
              /\ \A j \in 1..(k - 1) : getOlLayer(s.data[j]) # layer) - 1
    ELSE -1

\* getByLayer comparing field values in place of the layer itself: the first
\* record whose title is the layer's
getByLayer_byTitle(s, layer) ==
    IF \E k \in 1..Len(s.data) : s.data[k].title = s.title[layer]
    THEN CHOOSE k \in 1..Len(s.data) :
             /\ s.data[k].title = s.title[layer]
             /\ \A j \in 1..(k - 1) : s.data[j].title # s.title[layer]
    ELSE 0

\* getByLayer (lines 320-327): the position (1-based) of the record found, 0
\* for undefined
getByLayer(s, layer) ==
    LET index == findByLayer(s, layer)
    IN  IF index > -1 THEN index + 1 ELSE 0

\* the reader's records: one fresh record per layer, its title field taken
\* from the layer, nothing modified
readRecords(s, ls) == [k \in 1..Len(ls) |->
                          [layer |-> ls[k], title |-> s.title[ls[k]], mod |-> NoMod]]

\* me.proxy.reader.read(data), when it returns: the result set
read(s, ls) ==
    [success |-> s.rd = "ok",
     records |-> IF s.rd \in {"ok", "failRecords"} THEN readRecords(s, ls) ELSE <<>>]

\* ---- the call stack ----
\* Every handler runs synchronously inside the call that fired its event.  A
\* frame is a call still to be made or a statement still to be executed; a
\* function below takes the state and its arguments and gives the state after
\* its own statements together with the frames it leaves to run next, in
\* order, before its caller goes on.
Fr == [f |-> "", m |-> NoMap, l |-> 0, i |-> 0, v |-> 0, recs |-> <<>>,
       key |-> "", flag |-> FALSE]

Do(s, frames) == [s |-> s, push |-> frames]

\* a dereference of null: the call in progress is abandoned, nothing that was
\* to follow is executed
Throw(s) == Do([s EXCEPT !.err = TRUE], <<>>)

\* ---- events: the handlers a listener list holds when the event fires ----
\* "add" of map m's collection
FireAdd(s, m, layer) ==
    IF m \in s.colLis THEN <<[Fr EXCEPT !.f = "onAddLayer", !.l = layer]>> ELSE <<>>

\* "remove" of map m's collection
FireRemove(s, m, layer) ==
    IF m \in s.colLis THEN <<[Fr EXCEPT !.f = "onRemoveLayer", !.l = layer]>> ELSE <<>>

\* "propertychange" of a layer
FirePropertyChange(s, layer, key) ==
    IF layer \in s.lis
    THEN <<[Fr EXCEPT !.f = "onChangeLayer", !.l = layer, !.key = key]>>
    ELSE <<>>

\* "update" of the store, for its k-th record
FireUpdate(s, k, operation) ==
    IF s.storeLis
    THEN <<[Fr EXCEPT !.f = "onStoreUpdate", !.i = k, !.key = operation]>>
    ELSE <<>>

\* ---- records and layers: the title property ----
\* Ext.data.Model.set("title", v): nothing when the value is the same;
\* otherwise the field is written, record.modified keeps the original value
\* (or drops it when the original value is set again) and the record's store
\* fires "update" with operation EDIT
recordSetTitle(s, k, v) ==
    LET rec == s.data[k]
        m2  == IF rec.mod = NoMod THEN rec.title
               ELSE IF rec.mod = v THEN NoMod ELSE rec.mod
        s1  == Logged([s EXCEPT !.data[k] = [rec EXCEPT !.title = v, !.mod = m2]],
                      "store.title")
    IN  IF rec.title = v THEN Do(s, <<>>)
        ELSE Do(Logged(s1, "update"), FireUpdate(s1, k, "EDIT"))

\* ol.Object.set("title", v): writes the value, notifies propertychange
\* listeners when it differs from the old one
layerSetTitle(s, l, v) ==
    IF s.title[l] = v THEN Do(s, <<>>)
    ELSE Do(Logged([s EXCEPT !.title[l] = v], "layer.title"),
            FirePropertyChange(s, l, "title"))

\* this.fireEvent("update", this, record, Ext.data.Record.EDIT)
fireUpdate(s, k) == Do(Logged(s, "update"), FireUpdate(s, k, "EDIT"))

\* ---- ol.Collection: mutators of map m's layer collection ----
\* insertAt(index, layer)
colInsertAt(s, m, index, layer) ==
    Do(Logged([s EXCEPT !.layers[m] = InsertAll(@, index, <<layer>>)], "map.insert"),
       FireAdd(s, m, layer))

\* push(layer)
colPush(s, m, layer) == colInsertAt(s, m, Len(s.layers[m]), layer)

\* remove(layer): the first occurrence, nothing when absent
colRemove(s, m, layer) ==
    LET i == IndexOf(s.layers[m], layer)
    IN  IF i = -1 THEN Do(s, <<>>)
        ELSE Do(Logged([s EXCEPT !.layers[m] = RemoveAt(@, i + 1)], "map.remove"),
                FireRemove(s, m, layer))

\* clear(): pop() until empty, a remove event for each
colClear(s, m) ==
    LET n == Len(s.layers[m])
    IN  IF n = 0 THEN Do(s, <<>>)
        ELSE Do(Logged([s EXCEPT !.layers[m] = SubSeq(@, 1, n - 1)], "map.remove"),
                FireRemove(s, m, s.layers[m][n])
                    \o <<[Fr EXCEPT !.f = "colClear", !.m = m]>>)

\* extend(arr): push() of each
colExtend(s, m, ls) ==
    Do(s, [k \in 1..Len(ls) |-> [Fr EXCEPT !.f = "colPush", !.m = m, !.l = ls[k]]])

\* ---- Ext.data.Store: mutators of the store ----
\* insert(index, records), firing "add"; nothing happens for no records
storeInsert(s, index, records) ==
    IF records = <<>> THEN Do(s, <<>>)
    ELSE Do(Logged([s EXCEPT !.data = InsertAll(@, index, records)], "store.insert"),
            IF s.storeLis
            THEN <<[Fr EXCEPT !.f = "onAdd", !.recs = records, !.i = index]>>
            ELSE <<>>)

\* remove(record), the record being the k-th of the store, firing "remove"
storeRemove(s, k) ==
    Do(Logged([s EXCEPT !.data = RemoveAt(@, k)], "store.remove"),
       IF s.storeLis
       THEN <<[Fr EXCEPT !.f = "onRemove", !.recs = <<s.data[k]>>]>>
       ELSE <<>>)

\* me.data (the store's collection of records): the k-th record is replaced
\* by another record object, firing "replace" with the old record
dataReplace(s, k, rec) ==
    Do(Logged([s EXCEPT !.data[k] = rec], "store.replace"),
       IF s.storeLis
       THEN <<[Fr EXCEPT !.f = "onReplace", !.recs = <<s.data[k]>>]>>
       ELSE <<>>)

\* removeAll(), firing "clear"
storeRemoveAll(s) ==
    Do(Logged([s EXCEPT !.data = <<>>], "store.clear"),
       IF s.storeLis THEN <<[Fr EXCEPT !.f = "onClear"]>> ELSE <<>>)

\* delete me._adding
deleteAdding(s) == Do([s EXCEPT !.adding = FALSE], <<>>)

\* delete me._removing
deleteRemoving(s) == Do([s EXCEPT !.removing = FALSE], <<>>)

\* delete me._addRecords
deleteAddRecords(s) == Do([s EXCEPT !.addRecords = FALSE], <<>>)

\* ---- the handlers ----
\* onChangeLayer with the generic notification fired for every key
onChangeLayer_alwaysUpdate(s, layer, key) ==
    LET recordIndex == findByLayer(s, layer)
    IN  IF recordIndex > -1
        THEN Do(s, (IF key = "title"
                    THEN <<[Fr EXCEPT !.f = "recordSetTitle", !.i = recordIndex + 1,
                                      !.v = s.title[layer]]>>
                    ELSE <<>>)
                   \o <<[Fr EXCEPT !.f = "fireUpdate", !.i = recordIndex + 1]>>)
        ELSE Do(s, <<>>)

\* onChangeLayer (lines 115-128)
onChangeLayer(s, layer, key) ==
    LET recordIndex == findByLayer(s, layer)
    IN  IF recordIndex > -1
        THEN IF key = "title"
             THEN Do(s, <<[Fr EXCEPT !.f = "recordSetTitle", !.i = recordIndex + 1,
                                     !.v = s.title[layer]]>>)
             ELSE Do(s, <<[Fr EXCEPT !.f = "fireUpdate", !.i = recordIndex + 1]>>)
        ELSE Do(s, <<>>)

\* onAddLayer adding the record at the end of the store, whatever the index
onAddLayer_append(s, layer) ==
    IF s.map = NoMap THEN Throw(s)
    ELSE LET s1 == [s EXCEPT !.lis = @ \cup {layer}]
         IN  IF ~s1.adding
             THEN IF s1.rd = "throw" THEN Throw([s1 EXCEPT !.adding = TRUE])
                  ELSE Do([s1 EXCEPT !.adding = TRUE],
                          <<[Fr EXCEPT !.f = "storeInsert", !.i = Len(s.data),
                                       !.recs = read(s1, <<layer>>).records],
                            [Fr EXCEPT !.f = "deleteAdding"]>>)
             ELSE Do(s1, <<>>)

\* onAddLayer (lines 136-147); result.success is not looked at, and a throw
\* of the reader leaves the handler after me._adding = true
onAddLayer(s, layer) ==
    IF s.map = NoMap THEN Throw(s)
    ELSE LET index == IndexOf(s.layers[s.map], layer)
             s1 == [s EXCEPT !.lis = @ \cup {layer}]
         IN  IF ~s1.adding
             THEN IF s1.rd = "throw" THEN Throw([s1 EXCEPT !.adding = TRUE])
                  ELSE Do([s1 EXCEPT !.adding = TRUE],
                          <<[Fr EXCEPT !.f = "storeInsert", !.i = index,
                                       !.recs = read(s1, <<layer>>).records],
                            [Fr EXCEPT !.f = "deleteAdding"]>>)
             ELSE Do(s1, <<>>)

\* onRemoveLayer setting the guard before it looks the record up, and
\* clearing it only when there is one
onRemoveLayer_guardFirst(s, layer) ==
    LET rec == getByLayer(s, layer)
    IN  IF ~s.removing
        THEN IF rec # 0
             THEN Do([s EXCEPT !.removing = TRUE, !.lis = @ \ {layer}],
                     <<[Fr EXCEPT !.f = "storeRemove", !.i = rec],
                       [Fr EXCEPT !.f = "deleteRemoving"]>>)
             ELSE Do([s EXCEPT !.removing = TRUE], <<>>)
        ELSE Do(s, <<>>)

\* onRemoveLayer (lines 155-167)
onRemoveLayer(s, layer) ==
    LET rec == getByLayer(s, layer)
    IN  IF ~s.removing /\ rec # 0
        THEN Do([s EXCEPT !.removing = TRUE, !.lis = @ \ {layer}],
                <<[Fr EXCEPT !.f = "storeRemove", !.i = rec],
                  [Fr EXCEPT !.f = "deleteRemoving"]>>)
        ELSE Do(s, <<>>)

\* onLoad (lines 183-190): the target collection is emptied
onLoadClear(s) ==
    LET s1 == [s EXCEPT !.removing = TRUE]
    IN  IF s1.map = NoMap THEN Throw(s1)
        ELSE Do([s1 EXCEPT !.lis = @ \ Elems(s1.layers[s1.map])],
                <<[Fr EXCEPT !.f = "colClear", !.m = s1.map],
                  [Fr EXCEPT !.f = "deleteRemoving"]>>)

\* onLoad (lines 191-201): the records' layers are added to the target collection
onLoadExtend(s, records) ==
    LET ls == [i \in 1..Len(records) |-> getOlLayer(records[i])]
        s1 == [s EXCEPT !.lis = @ \cup Elems(ls), !.adding = TRUE]
    IN  IF s1.map = NoMap THEN Throw(s1)
        ELSE Do(s1, <<[Fr EXCEPT !.f = "colExtend", !.m = s1.map, !.recs = ls],
                      [Fr EXCEPT !.f = "deleteAdding"]>>)

\* onLoad emptying the target collection on every successful load, additive
\* or not
onLoad_clearAlways(s, records, successful) ==
    Do(s, (IF successful
           THEN <<[Fr EXCEPT !.f = "onLoadClear"]>> ELSE <<>>)
          \o (IF successful /\ Len(records) > 0
              THEN <<[Fr EXCEPT !.f = "onLoadExtend", !.recs = records]>> ELSE <<>>)
          \o <<[Fr EXCEPT !.f = "deleteAddRecords"]>>)

\* onLoad (lines 177-204)
onLoad(s, records, successful) ==
    Do(s, (IF successful /\ ~s.addRecords
           THEN <<[Fr EXCEPT !.f = "onLoadClear"]>> ELSE <<>>)
          \o (IF successful /\ Len(records) > 0
              THEN <<[Fr EXCEPT !.f = "onLoadExtend", !.recs = records]>> ELSE <<>>)
          \o <<[Fr EXCEPT !.f = "deleteAddRecords"]>>)

\* onClear (lines 211-219)
onClear(s) ==
    LET s1 == [s EXCEPT !.removing = TRUE]
    IN  IF s1.map = NoMap THEN Throw(s1)
        ELSE Do([s1 EXCEPT !.lis = @ \ Elems(s1.layers[s1.map])],
                <<[Fr EXCEPT !.f = "colClear", !.m = s1.map],
                  [Fr EXCEPT !.f = "deleteRemoving"]>>)

\* onAdd (lines 235-241): the loop body for one record
onAddEach(s, record, index) ==
    LET layer == getOlLayer(record)
        s1 == [s EXCEPT !.lis = @ \cup {layer}]
    IN  IF s1.map = NoMap THEN Throw(s1)
        ELSE IF index = 0
             THEN Do(s1, <<[Fr EXCEPT !.f = "colPush", !.m = s1.map, !.l = layer]>>)
             ELSE Do(s1, <<[Fr EXCEPT !.f = "colInsertAt", !.m = s1.map, !.i = index,
                                      !.l = layer]>>)

\* onAdd (lines 229-245)
onAdd(s, records, index) ==
    IF ~s.adding
    THEN Do([s EXCEPT !.adding = TRUE],
            [k \in 1..Len(records) |->
                [Fr EXCEPT !.f = "onAddEach", !.recs = <<records[k]>>, !.i = index]]
            \o <<[Fr EXCEPT !.f = "deleteAdding"]>>)
    ELSE Do(s, <<>>)

\* removeMapLayer (lines 298-300)
removeMapLayer(s, record) ==
    IF s.map = NoMap THEN Throw(s)
    ELSE Do(s, <<[Fr EXCEPT !.f = "colRemove", !.m = s.map, !.l = getOlLayer(record)]>>)

\* onRemove leaving the layer's propertychange listener in place
onRemove_keepListener(s, record) ==
    IF ~s.removing
    THEN IF s.map = NoMap THEN Throw(s)
         ELSE IF getOlLayer(record) \in Elems(s.layers[s.map])
              THEN Do([s EXCEPT !.removing = TRUE],
                      <<[Fr EXCEPT !.f = "removeMapLayer", !.recs = <<record>>],
                        [Fr EXCEPT !.f = "deleteRemoving"]>>)
              ELSE Do(s, <<>>)
    ELSE Do(s, <<>>)

\* onRemove (lines 254-271)
onRemove(s, record) ==
    LET layer == getOlLayer(record)
        s1 == [s EXCEPT !.lis = @ \ {layer}]
    IN  IF ~s.removing
        THEN IF s1.map = NoMap THEN Throw(s1)
             ELSE IF layer \in Elems(s1.layers[s1.map])
                  THEN Do([s1 EXCEPT !.removing = TRUE],
                          <<[Fr EXCEPT !.f = "removeMapLayer", !.recs = <<record>>],
                            [Fr EXCEPT !.f = "deleteRemoving"]>>)
                  ELSE Do(s1, <<>>)
        ELSE Do(s, <<>>)

\* onReplace (lines 310-312)
onReplace(s, oldRecord) ==
    Do(s, <<[Fr EXCEPT !.f = "removeMapLayer", !.recs = <<oldRecord>>]>>)

\* onStoreUpdate (lines 280-290); record.modified.title is the original
\* title, and an empty original title is falsy
onStoreUpdate(s, k, operation) ==
    LET record == s.data[k]
    IN  IF operation = "EDIT" /\ record.mod # NoMod /\ record.mod # 0
             /\ record.title # s.title[getOlLayer(record)]
        THEN Do(s, <<[Fr EXCEPT !.f = "layerSetTitle", !.l = getOlLayer(record),
                                !.v = record.title]>>)
        ELSE Do(s, <<>>)

\* loadRecords (lines 347-352), with Ext.data.Store.loadRecords: the records
\* replace the store's, or are appended to them, without an "add" event
loadRecords(s, records, append) ==
    Logged([s EXCEPT !.addRecords = IF append THEN TRUE ELSE @,
                     !.data = IF append THEN @ \o records ELSE records],
           "store.load")

\* loadRawData (lines 395-405)
loadRawData(s, ls, append) ==
    IF s.rd = "throw" THEN Throw(s)
    ELSE LET result == read(s, ls)
             records == result.records
             s1 == loadRecords(s, records, append)
         IN  IF result.success
             THEN Do(s1, IF s1.storeLis
                         THEN <<[Fr EXCEPT !.f = "onLoad", !.recs = records,
                                           !.flag = TRUE]>>
                         ELSE <<>>)
             ELSE Do(s, <<>>)

\* the import loop of bindMap loading each layer without the append flag
bindMap_replace(s, m) ==
    LET mapLayers == s.layers[m]
    IN  Do([s EXCEPT !.map = IF @ = NoMap THEN m ELSE @],
           [k \in 1..Len(mapLayers) |->
               [Fr EXCEPT !.f = "loadRawData", !.recs = <<mapLayers[k]>>,
                          !.flag = FALSE]]
           \o <<[Fr EXCEPT !.f = "bindListen", !.m = m]>>)

\* bindMap (lines 51-62): the map is stored and its layers are imported, one
\* loadRawData(layer, true) for each layer of the array as it is at the start
bindMap(s, m) ==
    LET mapLayers == s.layers[m]
    IN  Do([s EXCEPT !.map = IF @ = NoMap THEN m ELSE @],
           [k \in 1..Len(mapLayers) |->
               [Fr EXCEPT !.f = "loadRawData", !.recs = <<mapLayers[k]>>,
                          !.flag = TRUE]]
           \o <<[Fr EXCEPT !.f = "bindListen", !.m = m]>>)

\* bindMap (lines 64-84): the listeners are attached
bindListen(s, m) ==
    Do([s EXCEPT !.lis = @ \cup Elems(s.layers[m]),
                 !.colLis = @ \cup {m},
                 !.storeLis = TRUE],
       <<>>)

\* unbindMap reading me.map.getLayers() without testing me.map
unbindMap_unguarded(s) ==
    IF s.map = NoMap THEN Throw(s)
    ELSE Do([s EXCEPT !.colLis = @ \ {s.map}, !.storeLis = FALSE, !.map = NoMap],
            <<>>)

\* unbindMap (lines 90-106)
unbindMap(s) ==
    Do([s EXCEPT !.colLis = IF s.map # NoMap THEN @ \ {s.map} ELSE @,
                 !.storeLis = FALSE,
                 !.map = NoMap],
       <<>>)

\* one frame executed
Step(s, fr) ==
    CASE fr.f = "onChangeLayer" -> onChangeLayer(s, fr.l, fr.key)
      [] fr.f = "onAddLayer" -> onAddLayer(s, fr.l)
      [] fr.f = "onRemoveLayer" -> onRemoveLayer(s, fr.l)
      [] fr.f = "onLoad" -> onLoad(s, fr.recs, fr.flag)
      [] fr.f = "onLoadClear" -> onLoadClear(s)
      [] fr.f = "onLoadExtend" -> onLoadExtend(s, fr.recs)
      [] fr.f = "onClear" -> onClear(s)
      [] fr.f = "onAdd" -> onAdd(s, fr.recs, fr.i)
      [] fr.f = "onAddEach" -> onAddEach(s, fr.recs[1], fr.i)
      [] fr.f = "onRemove" -> onRemove(s, fr.recs[1])
      [] fr.f = "onStoreUpdate" -> onStoreUpdate(s, fr.i, fr.key)
      [] fr.f = "onReplace" -> onReplace(s, fr.recs[1])
      [] fr.f = "removeMapLayer" -> removeMapLayer(s, fr.recs[1])
      [] fr.f = "loadRawData" -> loadRawData(s, fr.recs, fr.flag)
      [] fr.f = "bindMap" -> bindMap(s, fr.m)
      [] fr.f = "bindListen" -> bindListen(s, fr.m)
      [] fr.f = "unbindMap" -> unbindMap(s)
      [] fr.f = "recordSetTitle" -> recordSetTitle(s, fr.i, fr.v)
      [] fr.f = "layerSetTitle" -> layerSetTitle(s, fr.l, fr.v)
      [] fr.f = "fireUpdate" -> fireUpdate(s, fr.i)
      [] fr.f = "colInsertAt" -> colInsertAt(s, fr.m, fr.i, fr.l)
      [] fr.f = "colPush" -> colPush(s, fr.m, fr.l)
      [] fr.f = "colRemove" -> colRemove(s, fr.m, fr.l)
      [] fr.f = "colClear" -> colClear(s, fr.m)
      [] fr.f = "colExtend" -> colExtend(s, fr.m, fr.recs)
      [] fr.f = "storeInsert" -> storeInsert(s, fr.i, fr.recs)
      [] fr.f = "storeRemove" -> storeRemove(s, fr.i)
      [] fr.f = "storeRemoveAll" -> storeRemoveAll(s)
      [] fr.f = "dataReplace" -> dataReplace(s, fr.i, fr.recs[1])
      [] fr.f = "deleteAdding" -> deleteAdding(s)
      [] fr.f = "deleteRemoving" -> deleteRemoving(s)
      [] fr.f = "deleteAddRecords" -> deleteAddRecords(s)

\* the stack run to its end: the top frame is executed and what it leaves is
\* run before the frames below it; a throw unwinds the whole stack
RECURSIVE Run(_, _)
Run(s, stack) ==
    IF s.err \/ stack = <<>> THEN s
    ELSE LET r == Step(s, Head(stack))
         IN  Run(r.s, r.push \o Tail(stack))

\* one call made from outside, with all it triggers
Call(s, fr) == Run(s, <<fr>>)

\* ---- the state machine ----
\* op: the call's name and arguments, and me.map as it was before the call
NoOp == [name |-> "constructor", m |-> 0, l |-> 0, i |-> 0, n |-> 0, pre |-> NoMap,
         rd |-> "ok"]

\* a new store, before its constructor has looked at config.map
NewStore(ls) ==
    [map |-> NoMap, layers |-> ls,
     title |-> [l \in Layers |-> IF l = 1 THEN 0 ELSE 1],
     lis |-> {}, colLis |-> {}, storeLis |-> FALSE, data |-> <<>>,
     adding |-> FALSE, removing |-> FALSE, addRecords |-> FALSE,
     log |-> <<>>, err |-> FALSE, rd |-> "ok"]

\* constructor (lines 35-43): the store is created without a map, or with
\* config.map = m and then bound to it
Constructed(ls, m) ==
    IF m = NoMap THEN NewStore(ls)
    ELSE Call(NewStore(ls), [Fr EXCEPT !.f = "bindMap", !.m = m])

\* the maps' layers when the store is created: map 1 is empty or holds every
\* layer, map 2 holds the last layer
AllLayers == [k \in 1..NumLayers |-> k]

InitLayers ==
    {f \in [Maps -> {<<>>, AllLayers, <<NumLayers>>}] :
        f[1] \in {<<>>, AllLayers} /\ f[2] = <<NumLayers>>}

Init ==
    \E ls \in InitLayers, m \in Maps \cup {NoMap} :
        LET r == Constructed(ls, m)
        IN  /\ map = r.map
            /\ layers = r.layers
            /\ title = r.title
            /\ lis = r.lis
            /\ colLis = r.colLis
            /\ storeLis = r.storeLis
            /\ data = r.data
            /\ adding = r.adding
            /\ removing = r.removing
            /\ addRecords = r.addRecords
            /\ log = r.log
            /\ err = r.err
            /\ op = [NoOp EXCEPT !.m = m]
            /\ calls = 0

\* the state before an outside call: nothing logged, nothing thrown
Fresh == [St EXCEPT !.log = <<>>, !.err = FALSE]

\* the same, the reader behaving as rd during the call
FreshWith(rd) == [Fresh EXCEPT !.rd = rd]

\* the ways the reader's behaviour can tell in a call: none but "ok" when the
\* call does not get to the reader; the two kinds of failure are one where
\* result.success is tested before result.records is used
ReadersOf(consulted, successTested) ==
    IF ~consulted THEN {"ok"}
    ELSE IF successTested THEN Readers \ {"failRecords"}
    ELSE Readers

WithinBounds(r) ==
    /\ Len(r.data) <= MaxData
    /\ \A m \in Maps : Len(r.layers[m]) <= MaxLen

Apply(r, o) ==
    /\ WithinBounds(r)
    /\ calls' = calls + 1
    /\ map' = r.map
    /\ layers' = r.layers
    /\ title' = r.title
    /\ lis' = r.lis
    /\ colLis' = r.colLis
    /\ storeLis' = r.storeLis
    /\ data' = r.data
    /\ adding' = r.adding
    /\ removing' = r.removing
    /\ addRecords' = r.addRecords
    /\ log' = r.log
    /\ err' = r.err
    /\ op' = [o EXCEPT !.pre = map]

\* store.bindMap(m)
BindMap ==
    /\ calls < MaxCalls
    /\ \E m \in Maps :
       \E rd \in ReadersOf(layers[m] # <<>>, TRUE) :
          Apply(Call(FreshWith(rd), [Fr EXCEPT !.f = "bindMap", !.m = m]),
                [NoOp EXCEPT !.name = "bindMap", !.m = m, !.rd = rd])

\* store.unbindMap()
UnbindMap ==
    /\ calls < MaxCalls
    /\ Apply(Call(Fresh, [Fr EXCEPT !.f = "unbindMap"]), [NoOp EXCEPT !.name = "unbindMap"])

\* map m's collection: insertAt(i, l) of a layer it does not hold
TargetInsert ==
    \E m \in Maps, l \in Layers :
        /\ calls < MaxCalls
        /\ l \notin Elems(layers[m])
        /\ \E i \in 0..Len(layers[m]),
                rd \in ReadersOf(m \in colLis /\ map # NoMap /\ ~adding, FALSE) :
              Apply(Call(FreshWith(rd),
                         [Fr EXCEPT !.f = "colInsertAt", !.m = m, !.i = i, !.l = l]),
                    [NoOp EXCEPT !.name = "targetInsert", !.m = m, !.l = l, !.i = i,
                                 !.rd = rd])

\* map m's collection: remove(l) of a layer it holds
TargetRemove ==
    \E m \in Maps, l \in Layers :
        /\ calls < MaxCalls
        /\ l \in Elems(layers[m])
        /\ Apply(Call(Fresh, [Fr EXCEPT !.f = "colRemove", !.m = m, !.l = l]),
                 [NoOp EXCEPT !.name = "targetRemove", !.m = m, !.l = l])

\* layer.set("title", t) with a new title
LayerSetTitle ==
    \E l \in Layers, t \in Titles :
        /\ calls < MaxCalls
        /\ t # title[l]
        /\ Apply(Call(Fresh, [Fr EXCEPT !.f = "layerSetTitle", !.l = l, !.v = t]),
                 [NoOp EXCEPT !.name = "layerSetTitle", !.l = l, !.n = t])

\* layer.set(key, v) of another property than title, with a new value
LayerSetOther ==
    /\ calls < MaxCalls
    /\ \E l \in Layers :
          Apply(Run(Fresh, FirePropertyChange(Fresh, l, "other")),
                [NoOp EXCEPT !.name = "layerSetOther", !.l = l])

\* sequences of layers no record of the store is backed by, without repeats
NewLayerSeqs ==
    LET free == Layers \ {getOlLayer(data[k]) : k \in 1..Len(data)}
    IN  {q \in UNION {[1..n -> free] : n \in 1..MaxLoad} : NoDup(q)}

\* store.insert(i, records) of new records
StoreInsert ==
    /\ calls < MaxCalls
    /\ \E ls \in NewLayerSeqs, i \in 0..Len(data) :
          Apply(Call(Fresh, [Fr EXCEPT !.f = "storeInsert", !.i = i,
                                       !.recs = readRecords(Fresh, ls)]),
                [NoOp EXCEPT !.name = "storeInsert", !.i = i, !.n = Len(ls),
                             !.l = ls[1]])

\* store.remove(record), the record being the k-th of the store
StoreRemove ==
    /\ calls < MaxCalls
    /\ \E k \in 1..Len(data) :
          Apply(Call(Fresh, [Fr EXCEPT !.f = "storeRemove", !.i = k]),
                [NoOp EXCEPT !.name = "storeRemove", !.i = k,
                             !.l = getOlLayer(data[k])])

\* store.removeAll()
StoreClear ==
    /\ calls < MaxCalls
    /\ data # <<>>
    /\ Apply(Call(Fresh, [Fr EXCEPT !.f = "storeRemoveAll"]),
             [NoOp EXCEPT !.name = "storeClear"])

\* record.set("title", t) with a new title, on the k-th record
StoreSetTitle ==
    \E k \in 1..Len(data), t \in Titles :
        /\ calls < MaxCalls
        /\ t # data[k].title
        /\ Apply(Call(Fresh, [Fr EXCEPT !.f = "recordSetTitle", !.i = k, !.v = t]),
                 [NoOp EXCEPT !.name = "storeSetTitle", !.i = k, !.n = t,
                              !.l = getOlLayer(data[k])])

\* store.loadRawData(layers, append): any layers when the store's records are
\* replaced, layers backing no record when they are appended
LoadRawData ==
    /\ calls < MaxCalls
    /\ \E append \in BOOLEAN, rd \in ReadersOf(TRUE, TRUE) :
      \E ls \in {<<>>} \cup
                IF append THEN NewLayerSeqs
                ELSE {q \in UNION {[1..n -> Layers] : n \in 1..MaxLoad} : NoDup(q)} :
        Apply(Call(FreshWith(rd), [Fr EXCEPT !.f = "loadRawData", !.recs = ls,
                                             !.flag = append]),
              [NoOp EXCEPT !.name = "loadRawData", !.n = Len(ls),
                           !.i = IF append THEN 1 ELSE 0, !.rd = rd])

\* me.data swaps another record object into the k-th slot: a new record of
\* the same layer, or of a layer that backs no record
StoreReplace ==
    /\ calls < MaxCalls
    /\ \E k \in 1..Len(data) :
        \E l \in {getOlLayer(data[k])} \cup
                  (Layers \ {getOlLayer(data[j]) : j \in 1..Len(data)}) :
          Apply(Call(Fresh, [Fr EXCEPT !.f = "dataReplace", !.i = k,
                                       !.recs = readRecords(Fresh, <<l>>)]),
                [NoOp EXCEPT !.name = "storeReplace", !.i = k, !.n = l,
                             !.l = getOlLayer(data[k])])

\* store.getByLayer(l): op.n is what it returns
GetByLayer ==
    /\ calls < MaxCalls
    /\ \E l \in Layers :
          Apply(Fresh, [NoOp EXCEPT !.name = "getByLayer", !.l = l,
                                    !.n = getByLayer(Fresh, l)])

Next ==
    \/ BindMap
    \/ UnbindMap
    \/ TargetInsert
    \/ TargetRemove
    \/ LayerSetTitle
    \/ LayerSetOther
    \/ StoreInsert
    \/ StoreRemove
    \/ StoreClear
    \/ StoreSetTitle
    \/ LoadRawData
    \/ StoreReplace
    \/ GetByLayer

Spec == Init /\ [][Next]_vars

\* ---- what the claims speak of ----
\* the backing elements, in model-collection order
Backing(d) == [k \in 1..Len(d) |-> getOlLayer(d[k])]

\* the pair (store, me.map) is bound: every listener of bindMap is in place
Bound == map # NoMap /\ map \in colLis /\ storeLis

\* model order equals target order
InOrder == map # NoMap /\ Backing(data) = layers[map]

\* bound and synchronized: same order, one entry per element, every element
\* subscribed, titles equal
Synced ==
    /\ Bound
    /\ InOrder
    /\ NoDup(layers[map])
    /\ Elems(layers[map]) \subseteq lis
    /\ \A k \in 1..Len(data) : data[k].title = title[getOlLayer(data[k])]

Count(q, S) == Cardinality({k \in 1..Len(q) : q[k] \in S})
StoreMutations == {"store.insert", "store.remove", "store.title", "store.load",
                   "store.clear"}
TargetMutations == {"map.insert", "map.remove", "layer.title"}

\* the record the reader makes of layer l in the current state
EntryOf(l) == [layer |-> l, title |-> title[l], mod |-> NoMod]

TargetOps == {"targetInsert", "targetRemove", "layerSetTitle", "layerSetOther"}
StoreOps == {"storeInsert", "storeRemove", "storeClear", "storeSetTitle",
             "loadRawData"}

\* ---- C1 ----
\* C1: on a bound pair whose model order equals its target order (no guard
\* left set, the reader reading what it is given), an insert into or a
\* remove from the target collection leaves, once propagated, the
\* backing elements in model order equal to the target order; the insert of
\* layer l at index i puts l's new entry at model index i and leaves the other
\* entries as they were, the remove takes out l's entry and no other.
C1_TargetOrderPreserved ==
    [][(Bound /\ InOrder /\ op'.name \in {"targetInsert", "targetRemove"}
              /\ op'.m = map /\ ~adding /\ ~removing /\ op'.rd = "ok")
       => /\ ~err'
          /\ map' = map
          /\ Backing(data') = layers'[map]
          /\ op'.name = "targetInsert"
                => data' = InsertAll(data, op'.i, <<EntryOf(op'.l)>>)
          /\ op'.name = "targetRemove"
                => \E k \in 1..Len(data) :
                      getOlLayer(data[k]) = op'.l /\ data' = RemoveAt(data, k)]_vars

\* a layer was inserted at index 0 before the others, and its entry is first
C1_Witness ==
    /\ op.name = "targetInsert" /\ op.i = 0 /\ op.m = map /\ op.pre = map
    /\ Bound /\ InOrder /\ op.rd = "ok"
    /\ Len(data) >= 2 /\ NoDup(layers[map]) /\ getOlLayer(data[1]) = op.l
    /\ log = <<"map.insert", "store.insert">>

\* ---- C2 ----
\* C2: on a bound, synchronized pair (no guard left set, the reader reading
\* what it is given) one outside add, remove or title edit on either
\* collection makes exactly one mutation of the other collection and
\* none of the collection it came from beyond the outside mutation itself.
C2_NoFeedbackLoops ==
    [][(/\ Synced
        /\ ~adding /\ ~removing /\ op'.rd = "ok"
        /\ \/ op'.name \in {"targetInsert", "targetRemove"} /\ op'.m = map
           \/ op'.name = "layerSetTitle" /\ op'.l \in Elems(layers[map])
           \/ op'.name = "storeInsert" /\ op'.n = 1
           \/ op'.name \in {"storeRemove", "storeSetTitle"})
       => /\ Count(log', StoreMutations) = 1
          /\ Count(log', TargetMutations) = 1]_vars

\* ---- C3 ----
\* C3: between calls, every element of the target collection backs at most
\* one entry of the model collection, and every entry has one backing element.
C3_OneToOne ==
    /\ \A k \in 1..Len(data) : getOlLayer(data[k]) \in Layers
    /\ map # NoMap =>
          \A l \in Elems(layers[map]) :
              Cardinality({k \in 1..Len(data) : getOlLayer(data[k]) = l}) <= 1

\* ---- C4 ----
\* C4: on a bound, synchronized pair, after the model collection has added
\* entries at any index and onAdd has completed, the backing elements in
\* model order equal the target order.
C4_ModelAddKeepsOrder ==
    [][(Synced /\ op'.name = "storeInsert")
       => Backing(data') = layers'[map']]_vars

\* ---- C5 ----
\* C5: once unbindMap has completed (and until the next bindMap) a mutation of
\* the target collection or of an element changes nothing in the model
\* collection, and a mutation of the model collection changes nothing in the
\* target collections or their elements.
C5_NoPropagationAfterUnbind ==
    [][(map = NoMap /\ ~storeLis)
       => /\ op'.name \in TargetOps => data' = data
          /\ op'.name \in StoreOps => layers' = layers /\ title' = title]_vars

\* ---- C6 ----
\* C6: unbindMap on a store that holds no map (never bound, or just unbound)
\* throws nothing, leaves both collections and the elements as they are and
\* leaves me.map cleared.
C6_IdempotentUnbind ==
    [][(op'.name = "unbindMap" /\ map = NoMap)
       => /\ ~err'
          /\ data' = data
          /\ layers' = layers
          /\ title' = title
          /\ map' = NoMap
          /\ ~storeLis']_vars

\* unbindMap was called a second time, on a store that had been bound
C6_Witness ==
    /\ op.name = "unbindMap" /\ op.pre = NoMap
    /\ calls >= 2 /\ data # <<>> /\ lis # {}
    /\ map = NoMap /\ ~err

\* ---- C7 ----
\* C7: binding again a target collection that was bound and unbound, the model
\* collection holding one entry per element in target order, ends with the
\* model collection still holding exactly one entry per element, in order,
\* and the target collection as it was.
C7_RebindNoDuplicates ==
    [][(/\ op'.name = "bindMap" /\ op'.rd = "ok"
        /\ map = NoMap /\ ~storeLis
        /\ layers[op'.m] # <<>>
        /\ Backing(data) = layers[op'.m]
        /\ Elems(layers[op'.m]) \subseteq lis)
       => /\ Backing(data') = layers'[op'.m]
          /\ layers' = layers]_vars

\* ---- C8 ----
\* C8: bindMap(m), the reader reading what it is given, appends to the model
\* collection one new entry per element
\* of m's collection, in the collection's order, entry k backed by element k,
\* keeps the entries that were there, and leaves every element of the
\* collection with a propertychange subscription; on an empty model
\* collection the result is exactly those n entries.
C8_InitialImport ==
    [][(op'.name = "bindMap" /\ op'.rd = "ok")
       => /\ ~err'
          /\ data' = data \o [k \in 1..Len(layers[op'.m]) |->
                                 EntryOf(layers[op'.m][k])]
          /\ Elems(layers[op'.m]) \subseteq lis'
          /\ data = <<>> => Backing(data') = layers[op'.m]]_vars

\* a first bind of a map with several layers to an empty store
C8_Witness ==
    /\ op.name = "bindMap" /\ op.pre = NoMap /\ map = op.m /\ op.rd = "ok"
    /\ Len(data) >= 2 /\ Backing(data) = layers[map]
    /\ Elems(layers[map]) \subseteq lis
    /\ Count(log, {"store.load"}) = Len(data) /\ Len(log) = Len(data)

\* ---- C9 ----
\* the entry onChangeLayer finds for layer l (0 when there is none)
FoundEntry(l) == getByLayer(St, l)

\* all that may differ between d and e is the title (and its modified mark)
\* of entry k
OnlyTitleOf(d, e, k) ==
    /\ Len(e) = Len(d)
    /\ \A j \in 1..Len(d) :
          /\ getOlLayer(e[j]) = getOlLayer(d[j])
          /\ j # k => e[j] = d[j]

\* C9 as stated: a title change of a subscribed element with an entry sets
\* the entry's title and fires no update notification on the model
\* collection; a change of another key fires exactly one and leaves the
\* entry's title as it is.
C9_TitleFastPathSilent ==
    [][(op'.name \in {"layerSetTitle", "layerSetOther"} /\ op'.l \in lis
          /\ FoundEntry(op'.l) # 0)
       => LET k == FoundEntry(op'.l)
          IN  /\ OnlyTitleOf(data, data', k)
              /\ op'.name = "layerSetTitle"
                    => /\ data'[k].title = title'[op'.l]
                       /\ Count(log', {"update"}) = 0
              /\ op'.name = "layerSetOther"
                    => /\ data'[k].title = data[k].title
                       /\ Count(log', {"update"}) = 1]_vars

\* C9 amended: a title change of a subscribed element with an entry sets the
\* entry's title to the element's and touches nothing else in the model
\* collection; the only update notification is the one the title write
\* itself raises (one when the entry's title changes, none when it already
\* had that value), onChangeLayer firing none of its own; a change of another
\* key fires exactly one update notification and leaves the entry's title.
C9_TitleFastPath ==
    [][(op'.name \in {"layerSetTitle", "layerSetOther"} /\ op'.l \in lis
          /\ FoundEntry(op'.l) # 0)
       => LET k == FoundEntry(op'.l)
          IN  /\ OnlyTitleOf(data, data', k)
              /\ op'.name = "layerSetTitle"
                    => /\ data'[k].title = title'[op'.l]
                       /\ title'[op'.l] = op'.n
                       /\ Count(log', {"update"}) = Count(log', {"store.title"})
                       /\ Count(log', {"store.title"}) =
                             (IF data[k].title = op'.n THEN 0 ELSE 1)
              /\ op'.name = "layerSetOther"
                    => /\ data'[k].title = data[k].title
                       /\ Count(log', {"update"}) = 1]_vars

\* a title edit on a bound element reached its entry, with its notification
C9_Witness ==
    /\ op.name = "layerSetTitle" /\ Bound /\ op.l \in lis
    /\ FoundEntry(op.l) # 0
    /\ data[FoundEntry(op.l)].title = op.n
    /\ log = <<"layer.title", "store.title", "update">>

\* ---- C10 ----
\* C10: on a bound, synchronized pair, removing the k-th entry from the model
\* collection removes its backing element from the target collection and
\* nothing else, removes no other entry, and leaves that element without a
\* propertychange subscription.
C10_RemoveViaModel ==
    [][(Synced /\ op'.name = "storeRemove")
       => /\ ~err'
          /\ data' = RemoveAt(data, op'.i)
          /\ layers'[map] = RemoveAt(layers[map], op'.i)
          /\ \A m \in Maps \ {map} : layers'[m] = layers[m]
          /\ op'.l \notin lis'
          /\ ~removing']_vars

\* the first of several entries was removed, and its element with it
C10_Witness ==
    /\ op.name = "storeRemove" /\ op.i = 1 /\ op.pre = map
    /\ Bound /\ InOrder /\ Len(data) >= 1
    /\ op.l \notin Elems(layers[map]) /\ op.l \notin lis
    /\ log = <<"store.remove", "map.remove">>

\* ---- C11 ----
\* C11: whenever no handler is executing, me._adding and me._removing are both
\* clear, whatever happened in the calls made so far, a throw of the reader
\* or of a collection mutation under a guard included.
C11_GuardsRestored == ~adding /\ ~removing

\* ---- C12 ----
\* C12: when an element is added to the bound target collection and the
\* reader reports failure for it, onAddLayer inserts nothing into the model
\* collection: the model collection and the guard flags are after the call
\* what they were before it, and the target collection holds the added
\* element and is otherwise as it was.
C12_ImportFailureNoOp ==
    [][(/\ op'.name = "targetInsert" /\ op'.m = map /\ Bound
        /\ op'.rd \in {"fail", "failRecords"})
       => /\ data' = data
          /\ adding' = adding /\ removing' = removing
          /\ layers' = [layers EXCEPT ![map] = InsertAll(@, op'.i, <<op'.l>>)]]_vars

\* ---- C13 ----
\* C13: a remove notification or a property-change notification for an
\* element that has no entry changes nothing in the model collection, fires
\* nothing on it, sets no guard and throws nothing; a remove of an entry whose
\* backing element is not in the target collection changes no target
\* collection and no element.
C13_LookupMissNoOp ==
    [][/\ (op'.name = "targetRemove" /\ op'.m \in colLis /\ FoundEntry(op'.l) = 0)
          => /\ data' = data /\ ~err'
             /\ adding' = adding /\ removing' = removing
             /\ log' = <<"map.remove">>
       /\ (op'.name \in {"layerSetTitle", "layerSetOther"} /\ op'.l \in lis
             /\ FoundEntry(op'.l) = 0)
          => /\ data' = data /\ ~err'
             /\ adding' = adding /\ removing' = removing
             /\ Count(log', StoreMutations \cup {"update"}) = 0
       /\ (op'.name = "storeRemove" /\ storeLis /\ map # NoMap
             /\ op'.l \notin Elems(layers[map]))
          => /\ layers' = layers /\ title' = title /\ ~err'
             /\ data' = RemoveAt(data, op'.i)
             /\ log' = <<"store.remove">>]_vars

\* a subscribed element without an entry was removed from a target
\* collection the store listens to, and the model collection kept its entries
C13_Witness ==
    /\ op.name = "targetRemove" /\ op.m \in colLis
    /\ FoundEntry(op.l) = 0 /\ data # <<>>
    /\ log = <<"map.remove">> /\ ~err

\* ---- C14 ----
\* C14: getByLayer(x) returns an entry that is in the model collection and
\* whose backing element is x itself whenever there is one, and undefined
\* otherwise; it never returns an entry backed by another element, whatever
\* the field values, and it changes nothing.
C14_GetByLayerIdentity ==
    [][op'.name = "getByLayer"
       => /\ (\E j \in 1..Len(data) : getOlLayer(data[j]) = op'.l)
                => op'.n \in 1..Len(data) /\ getOlLayer(data[op'.n]) = op'.l
          /\ (\A j \in 1..Len(data) : getOlLayer(data[j]) # op'.l) => op'.n = 0
          /\ data' = data /\ layers' = layers /\ title' = title]_vars

\* the entry of an element was returned although an earlier entry, backed by
\* another element, has the same field values
C14_Witness ==
    /\ op.name = "getByLayer" /\ op.n >= 2
    /\ getOlLayer(data[op.n]) = op.l
    /\ getOlLayer(data[1]) # op.l
    /\ data[1].title = data[op.n].title /\ title[getOlLayer(data[1])] = title[op.l]

\* ---- C15 ----
\* C15: after a successful reload that is not additive of a bound model
\* collection, the first reload after bindMap included, the target
\* collection is exactly the backing elements of the loaded entries in the
\* loaded order, an element that was in the target collection before and is
\* not among the loaded ones is gone from it and has no propertychange
\* subscription, and clearing the target collection removes no entry from the
\* model collection.
C15_ReplaceAllReload ==
    [][(/\ op'.name = "loadRawData" /\ op'.i = 0 /\ op'.rd = "ok"
        /\ Bound /\ ~adding /\ ~removing)
       => /\ ~err'
          /\ layers'[map] = Backing(data')
          /\ \A l \in Elems(layers[map]) \ Elems(Backing(data')) :
                l \notin Elems(layers'[map]) /\ l \notin lis'
          /\ Count(log', {"store.remove"}) = 0]_vars

\* ---- C16 ----
\* the entries the last load appended to the d it found
Loaded(d, e) == SubSeq(e, Len(d) + 1, Len(e))

\* C16 as stated: on a successful reload flagged additive of a bound model
\* collection, onLoad stops listening to the elements of the target
\* collection and empties it, and does not extend it with the backing
\* elements of the loaded entries.
C16_AdditiveReloadClears ==
    [][(/\ op'.name = "loadRawData" /\ op'.i = 1 /\ op'.rd = "ok"
        /\ Bound /\ ~adding /\ ~removing)
       => /\ layers'[map] = <<>>
          /\ Elems(layers[map]) \cap lis' = {}
          /\ Count(log', {"map.insert"}) = 0]_vars

\* C16 amended: on a successful reload flagged additive, onLoad neither stops
\* listening to the elements of the target collection nor removes any of
\* them; it appends the backing elements of the loaded entries to the target
\* collection, in the loaded order, under the adding guard (no entry is
\* inserted for them), and subscribes each; elements are removed from the
\* target collection only by a reload that is not additive.
C16_AdditiveReloadExtends ==
    [][(op'.name = "loadRawData" /\ op'.rd = "ok" /\ storeLis /\ map # NoMap)
       => /\ ~err'
          /\ op'.i = 1
                => /\ data' = data \o Loaded(data, data')
                   /\ Len(Loaded(data, data')) = op'.n
                   /\ layers'[map] = layers[map] \o Backing(Loaded(data, data'))
                   /\ lis \cup Elems(Backing(Loaded(data, data'))) \subseteq lis'
                   /\ Count(log', {"map.remove"}) = 0
                   /\ Count(log', {"map.insert"}) = op'.n
                   /\ Count(log', {"store.insert"}) = 0
                   /\ op'.n > 0 => ~adding'
          /\ Count(log', {"map.remove"}) > 0 => op'.i = 0]_vars

\* an additive reload of one entry on a bound pair with elements: the target
\* collection kept them and got the new one at its end
C16_Witness ==
    /\ op.name = "loadRawData" /\ op.i = 1 /\ op.n = 1 /\ op.rd = "ok"
    /\ Bound /\ op.pre = map
    /\ Len(layers[map]) >= 2
    /\ layers[map][Len(layers[map])] = getOlLayer(data[Len(data)])
    /\ log = <<"store.load", "map.insert">>

\* ---- C17 ----
\* C17: whenever the title of an entry of a bound model collection is edited
\* to a value that differs from its backing element's title, whatever the
\* entry's title was before (the empty title included), the element's title
\* is the entry's new title once onStoreUpdate has run, and no other
\* element's title changes.
C17_TitleMirrored ==
    [][(op'.name = "storeSetTitle" /\ Bound /\ op'.n # title[op'.l])
       => title' = [title EXCEPT ![op'.l] = op'.n]]_vars

\* ---- C18 ----
\* C18: when the model collection's storage swaps another entry object into
\* a slot of a bound pair, the old entry's backing element is left without a
\* propertychange subscription, is removed from the target collection if it
\* is there (and nothing else is), and that removal removes no entry from the
\* model collection.
C18_ReplaceAsRemove ==
    [][(op'.name = "storeReplace" /\ Bound /\ ~adding /\ ~removing)
       => /\ ~err'
          /\ op'.l \notin lis'
          /\ layers'[map] = IF op'.l \in Elems(layers[map])
                            THEN RemoveAt(layers[map], IndexOf(layers[map], op'.l) + 1)
                            ELSE layers[map]
          /\ Count(log', {"store.remove"}) = 0]_vars

\* ---- C19 ----
\* C19: whenever no load is in progress me._addRecords is clear: the flag
\* loadRecords sets is consumed by the load notification of that same load.
C19_FlagClearBetweenLoads == ~addRecords

\* ---- C20 ----
\* C20: bindMap changes the contents and the order of no target collection,
\* whatever the store was before (never bound, bound and unbound, or bound to
\* the same or to another map).
C20_BindKeepsTargets ==
    [][op'.name = "bindMap" => layers' = layers]_vars

====
